---- MODULE Spec2Model ----
(***************************************************************************)
(* Model of TradeOgre::getNewPrice (src/price_oracles/tradeogre.cpp).      *)
(*                                                                         *)
(* One invocation of getNewPrice is a straight-line program; every check   *)
(* of the source is one action, guarded by the program counter pc.  The    *)
(* collaborators (createRequest, performRequests, the wall clock, the      *)
(* mpfr formatter) return values drawn from small sets.                    *)
(*                                                                         *)
(* Strings are sequences of one-character strings; "NUL" is the zero byte  *)
(* a JSON string may contain (\u0000).  An mpfr value is the exact         *)
(* rational mant / 10^scale: with PRECISION = 256 bits every value of the  *)
(* bounded model is far below the size where binary rounding would change  *)
(* the rendered digits.  The time type is scaled down: a signed tick       *)
(* counter in TIME_MIN..TIME_MAX with TicksPerSec ticks per second, like   *)
(* the 64-bit nanosecond counter of system_clock.                          *)
(***************************************************************************)
EXTENDS Integers, Sequences, FiniteSets, TLC

VARIABLES pc, clock, trace, mwcRequest, btcRequest, performOk,
          mwcResponse, btcResponse, mostRecentPrice, date, timestamp,
          nowReads, price, setStrArgs, mwcPrice, btcPrice, precision,
          resultSize, written, rendered, result, error, returned

vars == <<pc, clock, trace, mwcRequest, btcRequest, performOk,
          mwcResponse, btcResponse, mostRecentPrice, date, timestamp,
          nowReads, price, setStrArgs, mwcPrice, btcPrice, precision,
          resultSize, written, rendered, result, error, returned>>

----------------------------------------------------------------------------
(* Bounds of the model *)

\* longest price string of a response
MaxLen == 3
\* longest feed-A array
MaxArrayLen == 2
\* dates range over -MaxDate..MaxDate (the int64 of the source, scaled)
MaxDate == 5
\* the clock advances by 0..MaxElapse ticks between two reads
MaxElapse == 2
\* time_point<system_clock>::max() in ticks
TIME_MAX == 10
\* system_clock ticks per second (the period of system_clock::duration)
TicksPerSec == 3

\* time_point<system_clock>::min() in ticks (two's complement)
TIME_MIN == -(TIME_MAX + 1)

----------------------------------------------------------------------------
(* Strings *)

Digits == {"0", "1", "2", "3", "4", "5", "6", "7", "8", "9"}
DigitChars == <<"0", "1", "2", "3", "4", "5", "6", "7", "8", "9">>
Alphabet == {"0", "2", "5", ".", "+", "NUL"}
Strings == UNION {[1..n -> Alphabet] : n \in 0..MaxLen}

DigitValue(c) == CHOOSE d \in 0..9 : DigitChars[d + 1] = c

RECURSIVE Pow10(_)
Pow10(n) == IF n = 0 THEN 1 ELSE 10 * Pow10(n - 1)

\* position of the first occurrence of c in s, 0 when there is none
\* (strchr, std::string::find)
IndexOf(s, c) ==
    IF \E i \in 1..Len(s) : s[i] = c
    THEN CHOOSE i \in 1..Len(s) : s[i] = c /\ \A j \in 1..(i - 1) : s[j] # c
    ELSE 0

\* get_c_str: the bytes up to the first zero byte
CStr(s) ==
    IF IndexOf(s, "NUL") = 0 THEN s ELSE SubSeq(s, 1, IndexOf(s, "NUL") - 1)

\* isdigit
IsDigit(c) == c \in Digits

----------------------------------------------------------------------------
(* The arbitrary-precision numbers (mpfr) *)

\* the characters of s that are digits, in order
RECURSIVE DigitsOf(_)
DigitsOf(s) ==
    IF s = <<>> THEN <<>>
    ELSE IF IsDigit(Head(s)) THEN <<Head(s)>> \o DigitsOf(Tail(s))
    ELSE DigitsOf(Tail(s))

\* the number a sequence of digits denotes
RECURSIVE DigitsToInt(_)
DigitsToInt(ds) ==
    IF ds = <<>> THEN 0
    ELSE 10 * DigitsToInt(SubSeq(ds, 1, Len(ds) - 1)) + DigitValue(ds[Len(ds)])

\* number of characters after the first '.', 0 when there is none:
\* strlen(price) - (decimal + sizeof('.') - price)
FractionDigits(s) == IF IndexOf(s, ".") = 0 THEN 0 ELSE Len(s) - IndexOf(s, ".")

\* the part of s after an optional sign
Unsigned(s) == IF s # <<>> /\ Head(s) = "+" THEN Tail(s) ELSE s

\* mpfr_set_str accepts the whole string or nothing: an optional sign, then
\* digits with at most one '.', and at least one digit
MpfrSyntaxOk(s) ==
    LET u == Unsigned(s)
    IN  /\ \A i \in 1..Len(u) : IsDigit(u[i]) \/ u[i] = "."
        /\ Cardinality({i \in 1..Len(u) : u[i] = "."}) <= 1
        /\ \E i \in 1..Len(u) : IsDigit(u[i])

Zero == [mant |-> 0, scale |-> 0]

\* mpfr_set_str(x, s, 10, MPFR_RNDN): ret is 0 on success and -1 otherwise
MpfrSetStr(s) ==
    IF MpfrSyntaxOk(s)
    THEN [ret |-> 0,
          value |-> [mant |-> DigitsToInt(DigitsOf(Unsigned(s))),
                     scale |-> FractionDigits(Unsigned(s))]]
    ELSE [ret |-> -1, value |-> Zero]

\* mpfr_sgn
MpfrSgn(x) == IF x.mant > 0 THEN 1 ELSE IF x.mant < 0 THEN -1 ELSE 0

\* mpfr_mul
MpfrMul(x, y) == [mant |-> x.mant * y.mant, scale |-> x.scale + y.scale]

\* n / d rounded to the nearest integer, ties to even (MPFR_RNDN), n >= 0
RoundDiv(n, d) ==
    LET q == n \div d
        r == n % d
    IN  IF 2 * r > d \/ (2 * r = d /\ q % 2 = 1) THEN q + 1 ELSE q

\* the decimal digits of n >= 0
RECURSIVE IntToDigits(_)
IntToDigits(n) ==
    IF n < 10 THEN <<DigitChars[n + 1]>>
    ELSE IntToDigits(n \div 10) \o <<DigitChars[(n % 10) + 1]>>

\* the low p decimal digits of n, zero padded
RECURSIVE LowDigits(_, _)
LowDigits(n, p) ==
    IF p = 0 THEN <<>>
    ELSE LowDigits(n \div 10, p - 1) \o <<DigitChars[(n % 10) + 1]>>

\* mpfr_sprintf("%.<p>R*F", MPFR_RNDN, x): fixed point, exactly p digits after
\* the point, no point when p = 0
Render(x, p) ==
    LET q == IF p >= x.scale
             THEN x.mant * Pow10(p - x.scale)
             ELSE RoundDiv(x.mant, Pow10(x.scale - p))
    IN  IF p = 0 THEN IntToDigits(q)
        ELSE IntToDigits(q \div Pow10(p)) \o <<".">> \o LowDigits(q, p)

\* std::string::find_last_not_of(c) + 1: the length of s without its trailing
\* run of c (npos + 1 = 0 when s holds nothing else)
RECURSIVE FindLastNotOf(_, _)
FindLastNotOf(s, c) ==
    IF s = <<>> THEN 0
    ELSE IF s[Len(s)] # c THEN Len(s)
    ELSE FindLastNotOf(SubSeq(s, 1, Len(s) - 1), c)

\* lines 206-222: remove the trailing zeros, then a trailing decimal point
RemoveTrailingZeros(r) ==
    IF r = <<"0">> THEN r
    ELSE LET z == IF r[Len(r)] = "0" THEN SubSeq(r, 1, FindLastNotOf(r, "0"))
                  ELSE r
         IN  IF z # <<>> /\ z[Len(z)] = "." THEN SubSeq(z, 1, Len(z) - 1) ELSE z

----------------------------------------------------------------------------
(* The time type *)

\* integer division truncating toward zero, as C++ divides
TruncDiv(a, b) == IF a >= 0 THEN a \div b ELSE -((-a) \div b)

\* a conversion to seconds that rounds down instead of toward zero
DurationCastSeconds_Floor(t) == t \div TicksPerSec

\* chrono::duration_cast<chrono::seconds>(t.time_since_epoch()).count()
DurationCastSeconds(t) == TruncDiv(t, TicksPerSec)

\* line 78
DateInvalid(d) ==
    d < DurationCastSeconds(TIME_MIN) \/ d > DurationCastSeconds(TIME_MAX)

\* a tick count as the time type stores it (two's complement wrap-around)
WrapTicks(x) == ((x - TIME_MIN) % (TIME_MAX - TIME_MIN + 1)) + TIME_MIN

\* line 85: time_point<system_clock>(chrono::seconds(date))
ToTimePoint(d) == WrapTicks(d * TicksPerSec)

\* the comparison of line 88 written with >=
InFuture_OrEqual(t, now) == t >= now

\* line 88
InFuture(t, now) == t > now

----------------------------------------------------------------------------
(* The responses *)

\* one element of the feed-A array: whether it is an object, whether its
\* "date" is an int64 and its "price" a string, and their values
Obs(d, p) == [isObject |-> TRUE, dateIsInt64 |-> TRUE, date |-> d,
              priceIsString |-> TRUE, price |-> p]
NotObject == [isObject |-> FALSE, dateIsInt64 |-> FALSE, date |-> 0,
              priceIsString |-> FALSE, price |-> <<>>]
NoDate == [isObject |-> TRUE, dateIsInt64 |-> FALSE, date |-> 0,
           priceIsString |-> TRUE, price |-> <<"5">>]
NoPrice == [isObject |-> TRUE, dateIsInt64 |-> TRUE, date |-> -1,
            priceIsString |-> FALSE, price |-> <<>>]

\* the feed-A buffer: no bytes ("empty"), bytes that are no JSON ("garbage"),
\* a JSON value that is no array ("other"), or an array
MwcBuffer(k, a) == [kind |-> k, elems |-> a]
History(a) == MwcBuffer("array", a)

\* the feed-B buffer, likewise; an object has a "success" that is a boolean
\* or not and a "price" that is a string or not
BtcBuffer(k, sb, s, ps, p) ==
    [kind |-> k, successIsBool |-> sb, success |-> s, priceIsString |-> ps,
     price |-> p]
Ticker(p) == BtcBuffer("object", TRUE, TRUE, TRUE, p)

\* what performRequests can leave in the two buffers
ShapeElems == {Obs(-1, <<"5">>), Obs(1, <<"2">>), NotObject, NoDate, NoPrice}
ShapeArrays == UNION {[1..n -> ShapeElems] : n \in 0..MaxArrayLen}
MwcShapes ==
    {MwcBuffer("empty", <<>>), MwcBuffer("garbage", <<>>),
     MwcBuffer("other", <<>>)} \cup {History(a) : a \in ShapeArrays}
BtcShapes ==
    {BtcBuffer("empty", FALSE, FALSE, FALSE, <<>>),
     BtcBuffer("garbage", FALSE, FALSE, FALSE, <<>>),
     BtcBuffer("other", FALSE, FALSE, FALSE, <<>>),
     BtcBuffer("object", FALSE, FALSE, TRUE, <<"2">>),
     BtcBuffer("object", TRUE, FALSE, TRUE, <<"2">>),
     BtcBuffer("object", TRUE, TRUE, FALSE, <<>>),
     Ticker(<<"2">>), Ticker(<<"+", "2">>)}
Dates == (-MaxDate)..MaxDate
FewPrices == {<<"5">>, <<".", "5">>, <<"2", ".", "0">>}
ResponsePairs ==
    (MwcShapes \X BtcShapes)
    \cup {<<History(<<Obs(d, <<"5">>)>>), Ticker(<<"2">>)>> : d \in Dates}
    \cup {<<History(<<Obs(-1, s)>>), Ticker(p)>> : s \in Strings, p \in FewPrices}
    \cup {<<History(<<Obs(-1, p)>>), Ticker(s)>> : s \in Strings, p \in FewPrices}

----------------------------------------------------------------------------
(* The checks of getNewPrice *)

CreatingMwcFailed == "Creating TradeOgre MWC request failed"
CreatingBtcFailed == "Creating TradeOgre BTC request failed"
PerformingFailed == "Performing TradeOgre requests failed"
SimdjsonError == "simdjson_error"
MwcResponseIsInvalid == "TradeOgre MWC response is invalid"
MwcMostRecentPriceIsInvalid == "TradeOgre MWC most recent price is invalid"
DateIsInvalid == "TradeOgre date is invalid"
MwcPriceIsInvalid == "TradeOgre MWC price is invalid"
BtcResponseIsInvalid == "TradeOgre BTC response is invalid"
BtcPriceIsInvalid == "TradeOgre BTC price is invalid"
ResultIsInvalid == "TradeOgre result is invalid"
GettingResultSizeFailed == "Getting TradeOgre result size failed"
GettingResultFailed == "Getting TradeOgre result failed"

\* the null check of lines 32, 41 left out
RequestFailed_Ignored(req) == FALSE

\* lines 32, 41: createRequest returned a null pointer
RequestFailed(req) == ~req

\* line 48 without the test of the BTC buffer
PerformFailed_OnlyMwc(ok, mwc, btc) == ~ok \/ mwc.kind = "empty"

\* line 48
PerformFailed(ok, mwc, btc) == ~ok \/ mwc.kind = "empty" \/ btc.kind = "empty"

\* lines 57, 135: parser.parse reports an error
ParseFailed(buf) == buf.kind \in {"empty", "garbage"}

\* line 60
MwcResponseInvalid(mwc) == mwc.kind # "array" \/ Len(mwc.elems) = 0

\* line 67 taking the first element
MostRecentIndex_First(size) == 1

\* line 67: json.at(size - 1), counting from 1
MostRecentIndex(size) == size

\* line 68
MostRecentPriceInvalid(e) ==
    ~e.isObject \/ ~e.dateIsInt64 \/ ~e.priceIsString

\* the character loops of lines 105-113, 155-163 left out
PriceCharsInvalid_Skipped(s) == FALSE

\* lines 105-113, 155-163
PriceCharsInvalid(s) == \E i \in 1..Len(s) : ~IsDigit(s[i]) /\ s[i] # "."

\* lines 116, 166
SetPriceInvalid(r) == r.ret # 0 \/ MpfrSgn(r.value) <= 0

\* line 138 without the test of the value of "success"
BtcResponseInvalid_NoSuccess(btc) ==
    \/ btc.kind # "object"
    \/ ~btc.successIsBool
    \/ ~btc.priceIsString

\* line 138
BtcResponseInvalid(btc) ==
    \/ btc.kind # "object"
    \/ ~btc.successIsBool
    \/ ~btc.success
    \/ ~btc.priceIsString

----------------------------------------------------------------------------
(* getNewPrice, one action per check *)

Throw(msg) == pc' = "failed" /\ error' = msg
Goto(label) == pc' = label /\ error' = error

Init ==
    /\ pc = "createMwc"
    /\ clock = 0
    /\ trace = <<>>
    /\ mwcRequest = FALSE
    /\ btcRequest = FALSE
    /\ performOk = FALSE
    /\ mwcResponse = MwcBuffer("empty", <<>>)
    /\ btcResponse = BtcBuffer("empty", FALSE, FALSE, FALSE, <<>>)
    /\ mostRecentPrice = NotObject
    /\ date = 0
    /\ timestamp = 0
    /\ nowReads = <<>>
    /\ price = <<>>
    /\ setStrArgs = <<>>
    /\ mwcPrice = Zero
    /\ btcPrice = Zero
    /\ precision = 0
    /\ resultSize = 0
    /\ written = 0
    /\ rendered = <<>>
    /\ result = <<>>
    /\ error = ""
    /\ returned = FALSE

\* lines 29-36
CreateMwcRequest ==
    /\ pc = "createMwc"
    /\ \E req \in BOOLEAN :
         /\ mwcRequest' = req
         /\ IF RequestFailed(req) THEN Throw(CreatingMwcFailed)
            ELSE Goto("createBtc")
    /\ trace' = Append(trace, "createRequest MWC")
    /\ UNCHANGED <<clock, btcRequest, performOk, mwcResponse, btcResponse,
                   mostRecentPrice, date, timestamp, nowReads, price,
                   setStrArgs, mwcPrice, btcPrice, precision, resultSize,
                   written, rendered, result, returned>>

\* lines 38-45
CreateBtcRequest ==
    /\ pc = "createBtc"
    /\ \E req \in BOOLEAN :
         /\ btcRequest' = req
         /\ IF RequestFailed(req) THEN Throw(CreatingBtcFailed)
            ELSE Goto("perform")
    /\ trace' = Append(trace, "createRequest BTC")
    /\ UNCHANGED <<clock, mwcRequest, performOk, mwcResponse, btcResponse,
                   mostRecentPrice, date, timestamp, nowReads, price,
                   setStrArgs, mwcPrice, btcPrice, precision, resultSize,
                   written, rendered, result, returned>>

\* lines 47-52: performRequests fills both buffers
PerformRequests ==
    /\ pc = "perform"
    /\ \E ok \in BOOLEAN, pair \in ResponsePairs :
         /\ performOk' = ok
         /\ mwcResponse' = pair[1]
         /\ btcResponse' = pair[2]
         /\ IF PerformFailed(ok, pair[1], pair[2]) THEN Throw(PerformingFailed)
            ELSE Goto("parseMwc")
    /\ trace' = Append(trace, "performRequests")
    /\ UNCHANGED <<clock, mwcRequest, btcRequest, mostRecentPrice, date,
                   timestamp, nowReads, price, setStrArgs, mwcPrice,
                   btcPrice, precision, resultSize, written, rendered,
                   result, returned>>

\* lines 54-57: the conversion to dom::element throws on a parse error
ParseMwcResponse ==
    /\ pc = "parseMwc"
    /\ IF ParseFailed(mwcResponse) THEN Throw(SimdjsonError)
       ELSE Goto("checkMwcResponse")
    /\ trace' = Append(trace, "parse MWC")
    /\ UNCHANGED <<clock, mwcRequest, btcRequest, performOk, mwcResponse,
                   btcResponse, mostRecentPrice, date, timestamp, nowReads,
                   price, setStrArgs, mwcPrice, btcPrice, precision,
                   resultSize, written, rendered, result, returned>>

\* lines 59-64
CheckMwcResponse ==
    /\ pc = "checkMwcResponse"
    /\ IF MwcResponseInvalid(mwcResponse) THEN Throw(MwcResponseIsInvalid)
       ELSE Goto("checkMostRecentPrice")
    /\ trace' = Append(trace, "check MWC response")
    /\ UNCHANGED <<clock, mwcRequest, btcRequest, performOk, mwcResponse,
                   btcResponse, mostRecentPrice, date, timestamp, nowReads,
                   price, setStrArgs, mwcPrice, btcPrice, precision,
                   resultSize, written, rendered, result, returned>>

\* lines 66-72
CheckMostRecentPrice ==
    /\ pc = "checkMostRecentPrice"
    /\ mostRecentPrice' =
           mwcResponse.elems[MostRecentIndex(Len(mwcResponse.elems))]
    /\ IF MostRecentPriceInvalid(mostRecentPrice')
       THEN Throw(MwcMostRecentPriceIsInvalid)
       ELSE Goto("checkDate")
    /\ trace' = Append(trace, "check MWC most recent price")
    /\ UNCHANGED <<clock, mwcRequest, btcRequest, performOk, mwcResponse,
                   btcResponse, date, timestamp, nowReads, price,
                   setStrArgs, mwcPrice, btcPrice, precision, resultSize,
                   written, rendered, result, returned>>

\* lines 74-82
CheckDate ==
    /\ pc = "checkDate"
    /\ date' = mostRecentPrice.date
    /\ IF DateInvalid(date') THEN Throw(DateIsInvalid)
       ELSE Goto("getTimestamp")
    /\ trace' = Append(trace, "check date")
    /\ UNCHANGED <<clock, mwcRequest, btcRequest, performOk, mwcResponse,
                   btcResponse, mostRecentPrice, timestamp, nowReads,
                   price, setStrArgs, mwcPrice, btcPrice, precision,
                   resultSize, written, rendered, result, returned>>

\* lines 84-92: now() is read for the comparison and, when the timestamp
\* is in the future, a second time for the new value
GetTimestamp ==
    /\ pc = "getTimestamp"
    /\ \E e1, e2 \in 0..MaxElapse :
         LET t == ToTimePoint(date)
             now1 == clock + e1
             now2 == now1 + e2
         IN  IF InFuture(t, now1)
             THEN /\ timestamp' = now2
                  /\ nowReads' = <<now1, now2>>
                  /\ clock' = now2
             ELSE /\ timestamp' = t
                  /\ nowReads' = <<now1>>
                  /\ clock' = now1
    /\ Goto("checkMwcPrice")
    /\ trace' = Append(trace, "get timestamp")
    /\ UNCHANGED <<mwcRequest, btcRequest, performOk, mwcResponse,
                   btcResponse, mostRecentPrice, date, price, setStrArgs,
                   mwcPrice, btcPrice, precision, resultSize, written,
                   rendered, result, returned>>

\* lines 101-113
CheckMwcPrice ==
    /\ pc = "checkMwcPrice"
    /\ price' = CStr(mostRecentPrice.price)
    /\ IF PriceCharsInvalid(price') THEN Throw(MwcPriceIsInvalid)
       ELSE Goto("setMwcPrice")
    /\ trace' = Append(trace, "check MWC price")
    /\ UNCHANGED <<clock, mwcRequest, btcRequest, performOk, mwcResponse,
                   btcResponse, mostRecentPrice, date, timestamp, nowReads,
                   setStrArgs, mwcPrice, btcPrice, precision, resultSize,
                   written, rendered, result, returned>>

\* lines 115-131
SetMwcPrice ==
    /\ pc = "setMwcPrice"
    /\ setStrArgs' = Append(setStrArgs, <<"MWC", price>>)
    /\ mwcPrice' = MpfrSetStr(price).value
    /\ IF SetPriceInvalid(MpfrSetStr(price))
       THEN Throw(MwcPriceIsInvalid) /\ precision' = 0
       ELSE Goto("parseBtc") /\ precision' = FractionDigits(price)
    /\ trace' = Append(trace, "set MWC price")
    /\ UNCHANGED <<clock, mwcRequest, btcRequest, performOk, mwcResponse,
                   btcResponse, mostRecentPrice, date, timestamp, nowReads,
                   price, btcPrice, resultSize, written, rendered, result,
                   returned>>

\* lines 133-135
ParseBtcResponse ==
    /\ pc = "parseBtc"
    /\ IF ParseFailed(btcResponse) THEN Throw(SimdjsonError)
       ELSE Goto("checkBtcResponse")
    /\ trace' = Append(trace, "parse BTC")
    /\ UNCHANGED <<clock, mwcRequest, btcRequest, performOk, mwcResponse,
                   btcResponse, mostRecentPrice, date, timestamp, nowReads,
                   price, setStrArgs, mwcPrice, btcPrice, precision,
                   resultSize, written, rendered, result, returned>>

\* lines 137-142
CheckBtcResponse ==
    /\ pc = "checkBtcResponse"
    /\ IF BtcResponseInvalid(btcResponse) THEN Throw(BtcResponseIsInvalid)
       ELSE Goto("checkBtcPrice")
    /\ trace' = Append(trace, "check BTC response")
    /\ UNCHANGED <<clock, mwcRequest, btcRequest, performOk, mwcResponse,
                   btcResponse, mostRecentPrice, date, timestamp, nowReads,
                   price, setStrArgs, mwcPrice, btcPrice, precision,
                   resultSize, written, rendered, result, returned>>

\* lines 151-163
CheckBtcPrice ==
    /\ pc = "checkBtcPrice"
    /\ price' = CStr(btcResponse.price)
    /\ IF PriceCharsInvalid(price') THEN Throw(BtcPriceIsInvalid)
       ELSE Goto("setBtcPrice")
    /\ trace' = Append(trace, "check BTC price")
    /\ UNCHANGED <<clock, mwcRequest, btcRequest, performOk, mwcResponse,
                   btcResponse, mostRecentPrice, date, timestamp, nowReads,
                   setStrArgs, mwcPrice, btcPrice, precision, resultSize,
                   written, rendered, result, returned>>

\* lines 165-178
SetBtcPrice ==
    /\ pc = "setBtcPrice"
    /\ setStrArgs' = Append(setStrArgs, <<"BTC", price>>)
    /\ btcPrice' = MpfrSetStr(price).value
    /\ IF SetPriceInvalid(MpfrSetStr(price))
       THEN Throw(BtcPriceIsInvalid) /\ precision' = precision
       ELSE Goto("multiply") /\ precision' = precision + FractionDigits(price)
    /\ trace' = Append(trace, "set BTC price")
    /\ UNCHANGED <<clock, mwcRequest, btcRequest, performOk, mwcResponse,
                   btcResponse, mostRecentPrice, date, timestamp, nowReads,
                   price, mwcPrice, resultSize, written, rendered, result,
                   returned>>

\* lines 180-188
Multiply ==
    /\ pc = "multiply"
    /\ mwcPrice' = MpfrMul(mwcPrice, btcPrice)
    /\ IF MpfrSgn(mwcPrice') <= 0 THEN Throw(ResultIsInvalid)
       ELSE Goto("getResultSize")
    /\ trace' = Append(trace, "multiply")
    /\ UNCHANGED <<clock, mwcRequest, btcRequest, performOk, mwcResponse,
                   btcResponse, mostRecentPrice, date, timestamp, nowReads,
                   price, setStrArgs, btcPrice, precision, resultSize,
                   written, rendered, result, returned>>

\* lines 190-196: mpfr_snprintf returns the length, or a negative number
\* when it fails
GetResultSize ==
    /\ pc = "getResultSize"
    /\ \E n \in {Len(Render(mwcPrice, precision)), -1} :
         /\ resultSize' = n
         /\ IF n <= 0 THEN Throw(GettingResultSizeFailed)
            ELSE Goto("getResult")
    /\ trace' = Append(trace, "get result size")
    /\ UNCHANGED <<clock, mwcRequest, btcRequest, performOk, mwcResponse,
                   btcResponse, mostRecentPrice, date, timestamp, nowReads,
                   price, setStrArgs, mwcPrice, btcPrice, precision,
                   written, rendered, result, returned>>

\* lines 198-204
GetResult ==
    /\ pc = "getResult"
    /\ \E n \in {Len(Render(mwcPrice, precision)), -1} :
         /\ written' = n
         /\ IF n # resultSize
            THEN Throw(GettingResultFailed) /\ UNCHANGED <<rendered, result>>
            ELSE /\ Goto("removeTrailingZeros")
                 /\ rendered' = Render(mwcPrice, precision)
                 /\ result' = rendered'
    /\ trace' = Append(trace, "get result")
    /\ UNCHANGED <<clock, mwcRequest, btcRequest, performOk, mwcResponse,
                   btcResponse, mostRecentPrice, date, timestamp, nowReads,
                   price, setStrArgs, mwcPrice, btcPrice, precision,
                   resultSize, returned>>

\* lines 206-222
Canonicalize ==
    /\ pc = "removeTrailingZeros"
    /\ result' = RemoveTrailingZeros(result)
    /\ Goto("return")
    /\ trace' = Append(trace, "remove trailing zeros")
    /\ UNCHANGED <<clock, mwcRequest, btcRequest, performOk, mwcResponse,
                   btcResponse, mostRecentPrice, date, timestamp, nowReads,
                   price, setStrArgs, mwcPrice, btcPrice, precision,
                   resultSize, written, rendered, returned>>

\* lines 224-225: the caller receives {timestamp, result} some time later
Return ==
    /\ pc = "return"
    /\ \E e \in 0..MaxElapse : clock' = clock + e
    /\ returned' = TRUE
    /\ Goto("done")
    /\ trace' = Append(trace, "return")
    /\ UNCHANGED <<mwcRequest, btcRequest, performOk, mwcResponse,
                   btcResponse, mostRecentPrice, date, timestamp, nowReads,
                   price, setStrArgs, mwcPrice, btcPrice, precision,
                   resultSize, written, rendered, result>>

Next ==
    \/ CreateMwcRequest
    \/ CreateBtcRequest
    \/ PerformRequests
    \/ ParseMwcResponse
    \/ CheckMwcResponse
    \/ CheckMostRecentPrice
    \/ CheckDate
    \/ GetTimestamp
    \/ CheckMwcPrice
    \/ SetMwcPrice
    \/ ParseBtcResponse
    \/ CheckBtcResponse
    \/ CheckBtcPrice
    \/ SetBtcPrice
    \/ Multiply
    \/ GetResultSize
    \/ GetResult
    \/ Canonicalize
    \/ Return

Spec == Init /\ [][Next]_vars

----------------------------------------------------------------------------
(* What the claims speak of *)

\* the actions of one complete invocation, in the order of the source
StepOrder ==
    <<"createRequest MWC", "createRequest BTC", "performRequests",
      "parse MWC", "check MWC response", "check MWC most recent price",
      "check date", "get timestamp", "check MWC price", "set MWC price",
      "parse BTC", "check BTC response", "check BTC price", "set BTC price",
      "multiply", "get result size", "get result", "remove trailing zeros",
      "return">>

\* the stage each action belongs to
StageOf(step) ==
    CASE step = "createRequest MWC" -> "construct A"
      [] step = "createRequest BTC" -> "construct B"
      [] step = "performRequests" -> "transport"
      [] step \in {"parse MWC", "check MWC response",
                   "check MWC most recent price", "check date",
                   "get timestamp", "check MWC price", "set MWC price"}
            -> "validate A"
      [] step \in {"parse BTC", "check BTC response", "check BTC price",
                   "set BTC price"} -> "validate B"
      [] step = "multiply" -> "multiply"
      [] step \in {"get result size", "get result"} -> "render"
      [] step = "remove trailing zeros" -> "canonicalize"
      [] OTHER -> "return"

Executed(step) == \E i \in 1..Len(trace) : trace[i] = step
Finished == pc \in {"done", "failed"}

\* a price the pipeline takes: the C string holds digits with at most one
\* '.', and a digit other than 0
ExpectedPriceOk(s) ==
    LET c == CStr(s)
    IN  /\ \A i \in 1..Len(c) : c[i] \in Digits \cup {"."}
        /\ Cardinality({i \in 1..Len(c) : c[i] = "."}) <= 1
        /\ \E i \in 1..Len(c) : c[i] \in Digits \ {"0"}

\* the date is an instant of the time type
Representable(d) == TIME_MIN <= d * TicksPerSec /\ d * TicksPerSec <= TIME_MAX

\* the error of feed A's validation, "" when feed A is valid
ExpectedFeedAError ==
    IF mwcResponse.kind = "garbage" THEN SimdjsonError
    ELSE IF mwcResponse.kind # "array" \/ mwcResponse.elems = <<>>
    THEN MwcResponseIsInvalid
    ELSE LET last == mwcResponse.elems[Len(mwcResponse.elems)]
         IN  IF ~(last.isObject /\ last.dateIsInt64 /\ last.priceIsString)
             THEN MwcMostRecentPriceIsInvalid
             ELSE IF ~Representable(last.date) THEN DateIsInvalid
             ELSE IF ~ExpectedPriceOk(last.price) THEN MwcPriceIsInvalid
             ELSE ""

\* the error of feed B's validation, "" when feed B is valid
ExpectedFeedBError ==
    IF btcResponse.kind = "garbage" THEN SimdjsonError
    ELSE IF ~(/\ btcResponse.kind = "object"
              /\ btcResponse.successIsBool
              /\ btcResponse.success
              /\ btcResponse.priceIsString)
    THEN BtcResponseIsInvalid
    ELSE IF ~ExpectedPriceOk(btcResponse.price) THEN BtcPriceIsInvalid
    ELSE ""

\* the first stage, in the fixed order, whose check fails on what the
\* collaborators delivered, and its error; "" when every stage succeeds
ExpectedOutcome ==
    IF ~mwcRequest
    THEN [stage |-> "construct A", error |-> CreatingMwcFailed]
    ELSE IF ~btcRequest
    THEN [stage |-> "construct B", error |-> CreatingBtcFailed]
    ELSE IF ~performOk \/ mwcResponse.kind = "empty" \/ btcResponse.kind = "empty"
    THEN [stage |-> "transport", error |-> PerformingFailed]
    ELSE IF ExpectedFeedAError # ""
    THEN [stage |-> "validate A", error |-> ExpectedFeedAError]
    ELSE IF ExpectedFeedBError # ""
    THEN [stage |-> "validate B", error |-> ExpectedFeedBError]
    ELSE IF resultSize <= 0
    THEN [stage |-> "render", error |-> GettingResultSizeFailed]
    ELSE IF written # resultSize
    THEN [stage |-> "render", error |-> GettingResultFailed]
    ELSE [stage |-> "", error |-> ""]

\* C1: the steps run in the fixed order; an invocation that ends either
\* returned a result after every stage succeeded, or failed with the error of
\* the first stage whose check fails, in that stage, and returned nothing
C1_FirstFailureWins ==
    /\ trace = SubSeq(StepOrder, 1, Len(trace))
    /\ returned => pc = "done"
    /\ ~Finished => error = ""
    /\ pc = "done" =>
          /\ returned
          /\ error = ""
          /\ trace = StepOrder
          /\ ExpectedOutcome.error = ""
    /\ pc = "failed" =>
          /\ ~returned
          /\ error # ""
          /\ error = ExpectedOutcome.error
          /\ StageOf(trace[Len(trace)]) = ExpectedOutcome.stage

\* feed B's price is refused after feed A passed every check
C1_Witness ==
    /\ pc = "failed"
    /\ error = BtcPriceIsInvalid
    /\ Executed("set MWC price")
    /\ ~Executed("multiply")

\* the integer part and the fractional digits of a fixed-point string
IntegerPart(s) ==
    IF IndexOf(s, ".") = 0 THEN s ELSE SubSeq(s, 1, IndexOf(s, ".") - 1)
FractionPart(s) ==
    IF IndexOf(s, ".") = 0 THEN <<>> ELSE SubSeq(s, IndexOf(s, ".") + 1, Len(s))
PadRight(f, n) == f \o [i \in 1..(n - Len(f)) |-> "0"]

\* two fixed-point strings without leading zeros denote the same number
SameNumber(a, b) ==
    LET n == IF Len(FractionPart(a)) >= Len(FractionPart(b))
             THEN Len(FractionPart(a)) ELSE Len(FractionPart(b))
    IN  /\ IntegerPart(a) = IntegerPart(b)
        /\ PadRight(FractionPart(a), n) = PadRight(FractionPart(b), n)

\* C2: the returned price denotes the same number as the rendered string,
\* and the digits of its integer part are those of the rendered string
C2_ValuePreserved ==
    returned =>
        /\ SameNumber(rendered, result)
        /\ IntegerPart(result) = IntegerPart(rendered)

\* C3: the returned timestamp is the instant of the date when that instant
\* is not after the clock read for the comparison, and otherwise the clock
\* read for the replacement; it is never after the clock, and it is after
\* the date's instant only when that instant was in the future at the
\* comparison
C3_TimestampClamp ==
    nowReads # <<>> =>
        LET instant == date * TicksPerSec
        IN  /\ instant <= nowReads[1] =>
                  Len(nowReads) = 1 /\ timestamp = instant
            /\ instant > nowReads[1] =>
                  Len(nowReads) = 2 /\ timestamp = nowReads[2]
            /\ \A i \in 1..Len(nowReads) : nowReads[i] <= clock
            /\ timestamp <= clock
            /\ timestamp > instant => instant > nowReads[1]

\* a result is returned whose timestamp was replaced by a clock value later
\* than the instant of the date
C3_Witness ==
    /\ returned
    /\ Len(nowReads) = 2
    /\ timestamp > date * TicksPerSec
    /\ clock > timestamp

\* a string with a character other than a digit or '.', or with two '.'
Malformed(s) ==
    \/ \E i \in 1..Len(s) : s[i] \notin Digits \cup {"."}
    \/ Cardinality({i \in 1..Len(s) : s[i] = "."}) > 1

SetStrCalledFor(feed) == \E i \in 1..Len(setStrArgs) : setStrArgs[i][1] = feed

\* C4: once a feed's price has been looked at, a malformed price string has
\* ended the invocation with that feed's price error, and mpfr_set_str was
\* not called for that feed
C4_RejectedBeforeParse ==
    /\ (Executed("check MWC price") /\ Malformed(mostRecentPrice.price)) =>
          /\ pc = "failed"
          /\ error = MwcPriceIsInvalid
          /\ ~SetStrCalledFor("MWC")
    /\ (Executed("check BTC price") /\ Malformed(btcResponse.price)) =>
          /\ pc = "failed"
          /\ error = BtcPriceIsInvalid
          /\ ~SetStrCalledFor("BTC")

\* C5: performRequests runs at most once and only after both requests were
\* created; a failed creation ends the invocation at once with the error
\* naming its feed
C5_PerformAfterBothCreated ==
    /\ Cardinality({i \in 1..Len(trace) : trace[i] = "performRequests"}) <= 1
    /\ Executed("performRequests") =>
          /\ mwcRequest
          /\ btcRequest
          /\ SubSeq(trace, 1, 3) =
                <<"createRequest MWC", "createRequest BTC", "performRequests">>
    /\ (Executed("createRequest MWC") /\ ~mwcRequest) =>
          /\ pc = "failed"
          /\ error = CreatingMwcFailed
          /\ trace = <<"createRequest MWC">>
    /\ (Executed("createRequest BTC") /\ ~btcRequest) =>
          /\ pc = "failed"
          /\ error = CreatingBtcFailed
          /\ trace = <<"createRequest MWC", "createRequest BTC">>

\* request B could not be created after request A was
C5_Witness ==
    /\ pc = "failed"
    /\ mwcRequest
    /\ ~btcRequest
    /\ error = CreatingBtcFailed

\* C6: after performRequests, the invocation has failed with the transport
\* error, with nothing parsed, exactly when the call reported failure or one
\* of the two buffers is empty
C6_TransportError ==
    LET broken == \/ ~performOk
                  \/ mwcResponse.kind = "empty"
                  \/ btcResponse.kind = "empty"
    IN  /\ (Executed("performRequests") /\ broken) =>
              /\ pc = "failed"
              /\ error = PerformingFailed
              /\ ~returned
              /\ trace[Len(trace)] = "performRequests"
        /\ error = PerformingFailed =>
              Executed("performRequests") /\ broken

\* the call succeeded and buffer A is filled, buffer B is empty
C6_Witness ==
    /\ error = PerformingFailed
    /\ performOk
    /\ mwcResponse.kind = "array"
    /\ mwcResponse.elems # <<>>
    /\ btcResponse.kind = "empty"

\* C7: removing the trailing zeros of a returned price changes nothing
C7_Idempotent == returned => RemoveTrailingZeros(result) = result

\* response B is an object that is no valid ticker
BadTicker ==
    /\ btcResponse.kind = "object"
    /\ ~(/\ btcResponse.successIsBool
         /\ btcResponse.success
         /\ btcResponse.priceIsString)

TransportSucceeded ==
    /\ Executed("performRequests")
    /\ performOk
    /\ mwcResponse.kind # "empty"
    /\ btcResponse.kind # "empty"

\* C8, as claimed: with a bad ticker the invocation ends with the feed-B
\* shape error whatever feed A holds
C8_AlwaysFeedBError ==
    (Finished /\ TransportSucceeded /\ BadTicker) =>
        ~returned /\ error = BtcResponseIsInvalid

\* C8, amended: with a bad ticker no result is returned; the error is the
\* feed-B shape error when feed A passes all of its checks, and feed A's
\* own error otherwise
C8_FeedBErrorAfterFeedA ==
    (Finished /\ TransportSucceeded /\ BadTicker) =>
        /\ ~returned
        /\ pc = "failed"
        /\ ExpectedFeedAError = "" => error = BtcResponseIsInvalid
        /\ ExpectedFeedAError # "" => error = ExpectedFeedAError

\* feed A is valid and the ticker reports success = false
C8_Witness ==
    /\ pc = "failed"
    /\ error = BtcResponseIsInvalid
    /\ btcResponse.successIsBool
    /\ ~btcResponse.success
    /\ ExpectedFeedAError = ""

\* the last element of the feed-A array
LastObservation == mwcResponse.elems[Len(mwcResponse.elems)]

\* C9: the observation looked at is the last element of the array; its date
\* and its price are the ones used, and a malformed last element fails the
\* invocation whatever the earlier elements are
C9_LastElement ==
    Executed("check MWC most recent price") =>
        /\ mostRecentPrice = LastObservation
        /\ ~(/\ LastObservation.isObject
             /\ LastObservation.dateIsInt64
             /\ LastObservation.priceIsString) =>
              pc = "failed" /\ error = MwcMostRecentPriceIsInvalid
        /\ Executed("check date") => date = LastObservation.date
        /\ Executed("set MWC price") =>
              setStrArgs[1] = <<"MWC", CStr(LastObservation.price)>>
        /\ returned =>
              /\ timestamp \in {LastObservation.date * TicksPerSec} \cup
                               {nowReads[i] : i \in 1..Len(nowReads)}
              /\ rendered =
                    Render(MpfrMul(MpfrSetStr(CStr(LastObservation.price)).value,
                                   btcPrice), precision)

\* a result is returned from an array whose first element has the larger
\* date
C9_Witness ==
    /\ returned
    /\ Len(mwcResponse.elems) = 2
    /\ mwcResponse.elems[1].isObject
    /\ mwcResponse.elems[1].dateIsInt64
    /\ mwcResponse.elems[1].date > mwcResponse.elems[2].date
    /\ date = mwcResponse.elems[2].date

\* C10: the date check refuses exactly the dates outside the whole-second
\* bounds of the time type, and the instant of an accepted date fits the
\* time type
C10_DateRange ==
    Executed("check date") =>
        LET lo == CHOOSE s \in Dates :
                     s * TicksPerSec >= TIME_MIN /\ (s - 1) * TicksPerSec < TIME_MIN
            hi == CHOOSE s \in Dates :
                     s * TicksPerSec <= TIME_MAX /\ (s + 1) * TicksPerSec > TIME_MAX
        IN  /\ error = DateIsInvalid <=> (date < lo \/ date > hi)
            /\ error = DateIsInvalid => pc = "failed"
            /\ error # DateIsInvalid => Representable(date)
            /\ (Executed("get timestamp") /\ Len(nowReads) = 1) =>
                  timestamp = date * TicksPerSec

\* the smallest date of the range is accepted and a result returned
C10_Witness ==
    /\ returned
    /\ date < 0
    /\ (date - 1) * TicksPerSec < TIME_MIN

====
